---- MODULE Spec2Model ----
(***************************************************************************)
(* Model of the verichain backend core: the idempotency guard at the HTTP  *)
(* boundary (src/middleware/idempotency.js), the blockchain registration   *)
(* worker on its Bull queue (src/workers/blockchainWorker.js,              *)
(* src/queues/queueConfig-fixed.js), the circuit-breaker protected         *)
(* blockchain call (src/middleware/circuitBreaker.js,                      *)
(* src/services/blockchain/PaseoService.js) and the register-blockchain    *)
(* route (src/api/v1/routes/certificates.js), and the QueueManager's       *)
(* administration of its queues (src/queues/queueConfig-fixed.js).         *)
(*                                                                         *)
(* In the guard, the worker and the route every await of the JavaScript    *)
(* code is a point where other requests, workers or the clock may run, so  *)
(* every await starts a new action. The QueueManager's operations (init,   *)
(* closeAll, clearQueue, retryFailedJobs, getAllQueuesStatus) are taken    *)
(* one call at a time, each as one action.                                 *)
(***************************************************************************)
EXTENDS Integers, Sequences, FiniteSets, TLC

NULL == "null"

(***************************************************************************)
(* Bounds of the model.                                                    *)
(***************************************************************************)
NumRequests == 2
MaxFaults == 1

MaxCalls == 11
MaxJobs == 1
MaxCount == 6
NumWorkers == 2
NumRouteRequests == 2
NumInitCallers == 2
NumSignals == 2

VARIABLES
  store,          \* the redis value under the one idempotency cacheKey
  req,            \* per request: position in IdempotencyMiddleware.check and its response
  expiries,       \* number of redis TTL expirations of the key so far
  storeFailures,  \* number of redis operations that have thrown so far
  cb,             \* the opossum breaker registered under the name 'blockchain'
  breakerFn,      \* the certificate whose closure that breaker was constructed with
  submitted,      \* the transactions the blockchain dependency accepted, in order
  calls,          \* number of registerCertificate calls so far
  last,           \* the latest registerCertificate call: breaker before, outcome, result
  certs,          \* the certificates table: tx_hash, blockchain_status, block_number
  jobs,           \* the jobs of the blockchain-registration queue
  worker,         \* per worker process: the job it holds and its position in the processor
  emailJobs,      \* the jobs added to the email-notifications queue
  emailQueueReady, \* whether init() got the email-notifications queue into the registry
  route,          \* per POST /:id/register-blockchain request: position, result, response
  hin,            \* the counts calculateQueueHealth is called with
  hout,           \* what calculateQueueHealth returned for them
  mgr,            \* the QueueManager: this.queues, this.isConnected, this.initialized
  qstat,          \* per queue: the counts Bull reports for it, or that reading them fails
  overall,        \* the latest getAllQueuesStatus: visiting order and overallHealth
  qjobs,          \* per queue: the state of each of its jobs
  opres,          \* the latest init / closeAll / clearQueue / retryFailedJobs and its result
  admin,          \* the latest request to the administrative queue routes and its answer
  paused,         \* per queue: whether it is paused
  boot,            \* concurrent init() calls: their positions, the registry they fill
  down            \* the shutdown: signals, their handlers, the queues' close(), the exit

idemVars == <<store, req, expiries, storeFailures>>

breakerVars == <<cb, breakerFn, submitted, calls, last>>

queueVars == <<certs, jobs, worker, emailJobs, emailQueueReady>>

mgrVars == <<hin, hout, mgr, qstat, overall, qjobs, opres>>

admVars == <<admin, paused>>

raceVars == <<boot>>

downVars == <<down>>

extVars == <<admVars, raceVars, downVars>>

vars ==
  <<store, req, expiries, storeFailures, cb, breakerFn, submitted, calls, last,
    certs, jobs, worker, emailJobs, emailQueueReady, route, hin, hout,
    mgr, qstat, overall, qjobs, opres, admin, paused, boot, down>>

(***************************************************************************)
(* IDEMPOTENCY GUARD                                                       *)
(***************************************************************************)
Requests == 1..NumRequests

\* what a guarded route hands to res.status(code).json(body): created, a validation
\* error, a server error; vNaN stands for a body holding a value JSON cannot keep
Responses ==
  {[code |-> 201, body |-> "vA"], [code |-> 400, body |-> "vNaN"],
   [code |-> 500, body |-> "vA"]}

\* JSON.stringify: NaN (like Infinity) is written as null
JSONstringify(v) ==
  CASE v = "vA" -> "tA"
    [] v = "vNaN" -> "tNull"
    [] v = "vNull" -> "tNull"
    [] OTHER -> "tErr"

\* JSON.parse of a text JSON.stringify produced
JSONparse(t) ==
  CASE t = "tA" -> "vA"
    [] t = "tNull" -> "vNull"
    [] OTHER -> "vErr"

noRecord == [status |-> "none", statusCode |-> 0, body |-> NULL, stale |-> FALSE]

\* idempotency.js:70-79  the 'processing' marker
processingData == [status |-> "processing", statusCode |-> 0, body |-> NULL, stale |-> FALSE]

\* idempotency.js:94-100  the record of an answered request, after its JSON round trip
completedRecord(statusCode, body) ==
  [status |-> "completed", statusCode |-> statusCode,
   body |-> JSONparse(JSONstringify(body)), stale |-> FALSE]

cachesResponse_lt400(statusCode) == statusCode < 400

\* idempotency.js:88  only responses below 500 are recorded
cachesResponse(statusCode) == statusCode < 500

newRequest ==
  [pc |-> "get", wrapped |-> FALSE, ran |-> FALSE, code |-> 0, body |-> NULL,
   wire |-> NULL, replayed |-> "absent", prior |-> {}, priorDone |-> {},
   saw |-> "unread", failed |-> FALSE, out |-> [code |-> 0, body |-> NULL]]

\* the response leaves the server: res.status(code).json(body)
Respond(r, code, body, replayed) ==
  [req[r] EXCEPT !.pc = "done", !.code = code, !.body = body,
                 !.wire = JSONstringify(body), !.replayed = replayed]

\* a redis operation either succeeds or throws (store unreachable)
StoreOutcome(ok) == ok \in BOOLEAN /\ (~ok => expiries + storeFailures < MaxFaults)

CountFailure(ok) == storeFailures' = IF ok THEN storeFailures ELSE storeFailures + 1

\* the requests whose check had started, and those already answered, when r's check starts
Seen(r, rec) ==
  [rec EXCEPT !.prior = {q \in Requests \ {r} : req[q].pc # "get"},
              !.priorDone = {q \in Requests \ {r} : req[q].pc = "done"}]

\* idempotency.js:36-44  what redis.get and the test of the timestamp find under the key
sawOf(rec) ==
  IF rec.status = "processing" /\ rec.stale THEN "stale" ELSE rec.status

\* idempotency.js:36-68 and the catch at 120-123
CheckGet(r) ==
  /\ req[r].pc = "get"
  /\ \E ok \in BOOLEAN :
       /\ StoreOutcome(ok)
       /\ CountFailure(ok)
       /\ req' = [req EXCEPT ![r] = Seen(r,
            IF ~ok THEN [@ EXCEPT !.pc = "handler", !.wrapped = FALSE,
                                  !.saw = "error", !.failed = TRUE]
            ELSE IF store.status = "none" THEN [@ EXCEPT !.pc = "setex", !.saw = "none"]
            ELSE IF store.status = "processing" /\ store.stale
              THEN [@ EXCEPT !.pc = "del", !.saw = sawOf(store)]
            ELSE IF store.status = "processing"
              THEN [Respond(r, 409, "REQUEST_IN_PROGRESS", "absent")
                      EXCEPT !.saw = sawOf(store)]
            ELSE [Respond(r, store.statusCode, store.body, "true")
                    EXCEPT !.saw = sawOf(store)])]
  /\ UNCHANGED <<store, expiries, breakerVars, queueVars, route, mgrVars, extVars>>

\* the stale branch answering with the conflict instead of allowing the retry
CheckDel_conflict(r) ==
  /\ req[r].pc = "del"
  /\ req' = [req EXCEPT ![r] = Respond(r, 409, "REQUEST_IN_PROGRESS", "absent")]
  /\ UNCHANGED <<store, storeFailures, expiries, breakerVars, queueVars, route, mgrVars, extVars>>

\* idempotency.js:44-48  stale marker: delete it and run the handler
CheckDel(r) ==
  /\ req[r].pc = "del"
  /\ \E ok \in BOOLEAN :
       /\ StoreOutcome(ok)
       /\ CountFailure(ok)
       /\ store' = IF ok THEN noRecord ELSE store
       /\ req' = [req EXCEPT ![r] = [@ EXCEPT !.pc = "handler", !.wrapped = FALSE,
                                               !.failed = ~ok]]
  /\ UNCHANGED <<expiries, breakerVars, queueVars, route, mgrVars, extVars>>

\* a guard that answers 503 itself when the marker cannot be written
CheckSetex_failClosed(r) ==
  /\ req[r].pc = "setex"
  /\ \E ok \in BOOLEAN :
       /\ StoreOutcome(ok)
       /\ CountFailure(ok)
       /\ store' = IF ok THEN processingData ELSE store
       /\ req' = [req EXCEPT ![r] =
                    IF ok THEN [@ EXCEPT !.pc = "handler", !.wrapped = TRUE]
                    ELSE [Respond(r, 503, "STORE_UNAVAILABLE", "absent")
                            EXCEPT !.failed = TRUE]]
  /\ UNCHANGED <<expiries, breakerVars, queueVars, route, mgrVars, extVars>>

\* idempotency.js:70-118  write the marker, wrap res.json, next()
CheckSetex(r) ==
  /\ req[r].pc = "setex"
  /\ \E ok \in BOOLEAN :
       /\ StoreOutcome(ok)
       /\ CountFailure(ok)
       /\ store' = IF ok THEN processingData ELSE store
       /\ req' = [req EXCEPT ![r] = [@ EXCEPT !.pc = "handler", !.wrapped = ok,
                                               !.failed = ~ok]]
  /\ UNCHANGED <<expiries, breakerVars, queueVars, route, mgrVars, extVars>>

\* the route handler runs and answers through res.json
Handler(r) ==
  /\ req[r].pc = "handler"
  /\ \E resp \in Responses :
       req' = [req EXCEPT ![r] =
         IF req[r].wrapped
           THEN [@ EXCEPT !.pc = "json", !.ran = TRUE, !.code = resp.code,
                          !.body = resp.body, !.out = resp]
           ELSE [Respond(r, resp.code, resp.body, "absent")
                   EXCEPT !.ran = TRUE, !.out = resp]]
  /\ UNCHANGED <<store, expiries, storeFailures, breakerVars, queueVars, route, mgrVars, extVars>>

\* the route handler starts and dies without answering
HandlerCrash(r) ==
  /\ req[r].pc = "handler"
  /\ req' = [req EXCEPT ![r] = [@ EXCEPT !.pc = "crashed", !.ran = TRUE]]
  /\ UNCHANGED <<store, expiries, storeFailures, breakerVars, queueVars, route, mgrVars, extVars>>

\* idempotency.js:84-116  the wrapped res.json
JsonWrapped(r) ==
  /\ req[r].pc = "json"
  /\ \E ok \in BOOLEAN :
       /\ StoreOutcome(ok)
       /\ CountFailure(ok)
       /\ store' = IF ~ok THEN store
                   ELSE IF cachesResponse(req[r].code)
                     THEN completedRecord(req[r].code, req[r].body)
                   ELSE noRecord
       /\ req' = [req EXCEPT ![r] = [Respond(r, req[r].code, req[r].body, "false")
                                       EXCEPT !.failed = ~ok]]
  /\ UNCHANGED <<expiries, breakerVars, queueVars, route, mgrVars, extVars>>

\* redis drops the key when its TTL (setex 300 / 3600 / 86400) runs out
Expire ==
  /\ store.status # "none"
  /\ expiries + storeFailures < MaxFaults
  /\ store' = noRecord
  /\ expiries' = expiries + 1
  /\ UNCHANGED <<req, storeFailures, breakerVars, queueVars, route, mgrVars, extVars>>

\* idempotency.js:42-44  Date.now() - result.timestamp passes 300000 before redis drops the key
Age ==
  /\ store.status = "processing"
  /\ ~store.stale
  /\ store' = [store EXCEPT !.stale = TRUE]
  /\ UNCHANGED <<req, expiries, storeFailures, breakerVars, queueVars, route, mgrVars, extVars>>

(***************************************************************************)
(* CIRCUIT BREAKER AND PaseoService.registerCertificate                    *)
(*                                                                         *)
(* CircuitBreakerFactory keeps one opossum breaker per name.  The breaker  *)
(* counts the calls and failures of its rolling window; a failing call     *)
(* opens it when the window holds at least volumeThreshold calls and more  *)
(* than errorThresholdPercentage of them failed; while open it rejects     *)
(* calls without running the action; resetTimeout later it is half open    *)
(* and lets a trial call through.  A registered fallback turns every       *)
(* failure or rejection into the fallback's value.                         *)
(***************************************************************************)
\* the certificates of the certificates table
CertIds == {"C1"}

\* the certificates whose data callers hand to registerCertificate directly
CallCerts == {"C1", "C2"}

\* circuitBreaker.js:7-14
defaultOptions ==
  [timeout |-> 30000, errorThresholdPercentage |-> 50, resetTimeout |-> 30000,
   volumeThreshold |-> 10, rollingCountTimeout |-> 10000]

\* circuitBreaker.js:64-68
blockchainOptions ==
  [timeout |-> 45000, errorThresholdPercentage |-> 60, resetTimeout |-> 60000]

\* circuitBreaker.js:21-25  { ...defaultOptions, ...options }
getBreakerOptions(options) ==
  [k \in DOMAIN defaultOptions |->
     IF k \in DOMAIN options THEN options[k] ELSE defaultOptions[k]]

blockchainBreakerOptions == getBreakerOptions(blockchainOptions)

newBreaker == [state |-> "closed", fires |-> 0, failures |-> 0]

\* what the blockchain dependency does with a call that reaches it
Outcomes == {"ok", "error", "timeout"}

\* opossum, on a failed call: open when half open, or when the window is full enough
\* and its failure rate is above the threshold
Trips(b, opts) ==
  \/ b.state = "halfOpen"
  \/ /\ b.fires >= opts.volumeThreshold
     /\ b.failures * 100 > opts.errorThresholdPercentage * b.fires

\* opossum fire(): the breaker after the call, whether the action ran, how it settled
BreakerFire(b, outcome, opts) ==
  LET fired == [b EXCEPT !.fires = @ + 1]
      failed == [fired EXCEPT !.failures = @ + 1]
  IN  IF b.state = "open"
        THEN [cb |-> fired, invoked |-> FALSE, settled |-> "rejected"]
      ELSE IF outcome = "ok"
        THEN [cb |-> [fired EXCEPT !.state = "closed"], invoked |-> TRUE, settled |-> "ok"]
      ELSE [cb |-> IF Trips(failed, opts) THEN [failed EXCEPT !.state = "open"] ELSE failed,
            invoked |-> TRUE, settled |-> outcome]

\* no transaction hash (null in the code)
NoHash == <<"none", "none", 0>>

\* the hash of the n-th transaction the chain accepted, made for certificate c
TxHash(c, n) == <<"0x", c, n>>

\* PaseoService.js:133-141  the result of a transaction the chain accepted
confirmedResult(hash) ==
  [success |-> TRUE, txHash |-> hash, blockNumber |-> "block", status |-> "confirmed"]

fallbackResult_pending(certId) ==
  [success |-> TRUE, txHash |-> <<"pending", certId, 0>>, blockNumber |-> NULL,
   status |-> "pending"]

\* PaseoService.js:52-63  the fallback: a placeholder hash pending_<time>_<id>
fallbackResult(certId) ==
  [success |-> TRUE, txHash |-> <<"pending", certId, 0>>, blockNumber |-> NULL,
   status |-> "queued"]

\* PaseoService.js:67-80  the result when breaker.fire() rejects
failedResult ==
  [success |-> FALSE, txHash |-> NoHash, blockNumber |-> NULL, status |-> "failed"]

\* no result yet
noResult ==
  [success |-> FALSE, txHash |-> NoHash, blockNumber |-> NULL, status |-> "none"]

fallbackMissing == FALSE

\* PaseoService.js:52  breaker.fallback(...) is set before every fire
fallbackRegistered == TRUE

\* PaseoService.js:45-81  registerCertificate(certificateData) as one call:
\* the breaker of the first call is reused (circuitBreaker.js:20,57), so the action
\* that runs submits the data its closure captured
registerCertificate(b, fn, certId, outcome, nsub) ==
  LET action == IF fn = NULL THEN certId ELSE fn
      f == BreakerFire(b, outcome, blockchainBreakerOptions)
  IN  [cb |-> f.cb, fn |-> action, invoked |-> f.invoked, settled |-> f.settled,
       sent |-> IF f.settled = "ok" THEN <<action>> ELSE <<>>,
       result |-> IF f.settled = "ok" THEN confirmedResult(TxHash(action, nsub + 1))
                  ELSE IF fallbackRegistered THEN fallbackResult(certId)
                  ELSE failedResult]

\* updates shared by every caller of registerCertificate
Registered(rc, certId, before) ==
  /\ cb' = rc.cb
  /\ breakerFn' = rc.fn
  /\ submitted' = submitted \o rc.sent
  /\ calls' = calls + 1
  /\ last' = [cert |-> certId, before |-> before, after |-> rc.cb, invoked |-> rc.invoked,
              settled |-> rc.settled, result |-> rc.result]

\* a caller invokes paseoService.registerCertificate directly
CallRegister(c) ==
  /\ calls < MaxCalls
  /\ \E outcome \in Outcomes :
       Registered(registerCertificate(cb, breakerFn, c, outcome, Len(submitted)), c, cb)
  /\ UNCHANGED <<idemVars, queueVars, route, mgrVars, extVars>>

\* opossum: resetTimeout after opening, the breaker is half open; the failures of the
\* window are older than rollingCountTimeout by then when resetTimeout is the longer
BreakerHalfOpen ==
  /\ cb.state = "open"
  /\ cb' = IF blockchainBreakerOptions.resetTimeout >= blockchainBreakerOptions.rollingCountTimeout
             THEN [state |-> "halfOpen", fires |-> 0, failures |-> 0]
             ELSE [cb EXCEPT !.state = "halfOpen"]
  /\ UNCHANGED <<idemVars, queueVars, route, mgrVars, extVars, breakerFn, submitted, calls, last>>

\* opossum: the oldest call leaves the rolling window
WindowRoll ==
  /\ cb.fires > 0
  /\ \/ cb.fires > cb.failures /\ cb' = [cb EXCEPT !.fires = @ - 1]
     \/ cb.failures > 0 /\ cb' = [cb EXCEPT !.fires = @ - 1, !.failures = @ - 1]
  /\ UNCHANGED <<idemVars, queueVars, route, mgrVars, extVars, breakerFn, submitted, calls, last>>

noCall ==
  [cert |-> NULL, before |-> newBreaker, after |-> newBreaker, invoked |-> FALSE,
   settled |-> "none", result |-> noResult]

BreakerStart ==
  /\ cb = newBreaker
  /\ breakerFn = NULL
  /\ submitted = <<>>
  /\ calls = 0
  /\ last = noCall

(***************************************************************************)
(* BLOCKCHAIN REGISTRATION QUEUE AND WORKER                                *)
(*                                                                         *)
(* The queue is a Bull queue.  A worker process takes a waiting job and    *)
(* holds it as active; the processor registered for the job's name runs;   *)
(* a job whose name has no processor fails with 'Missing process handler'; *)
(* a processor that returns completes the job; one that throws counts an   *)
(* attempt (attemptsMade) and the job is delayed for its backoff while     *)
(* attempts are left, and failed otherwise.                                *)
(***************************************************************************)
JobIds == 1..MaxJobs
Workers == 1..NumWorkers

\* a certificate id that is in no row of the certificates table
MissingId == "C9"

\* queueConfig-fixed.js:92-101  defaultJobOptions of blockchainRegistration
blockchainRegistrationOptions ==
  [attempts |-> 3, backoff |-> [type |-> "exponential", delay |-> 5000], timeout |-> 60000]

\* Bull's default: a job found stalled more than once is failed
maxStalledCount == 1

\* blockchainWorker.js:11  the only name a processor is registered for
ProcessorNames == {"register-certificate"}

\* queueConfig-fixed.js:259  queue.add(data, opts) names no job type
DefaultJobName == "__default__"

noReturn == [status |-> "none", tx_hash |-> NoHash]

noJob ==
  [state |-> "none", name |-> "none", certificateId |-> "none", attemptsMade |-> 0,
   stalledCount |-> 0, owner |-> 0, returnvalue |-> noReturn, failedReason |-> "none",
   execs |-> 0, depOutcomes |-> <<>>]

\* a metadata map without keys ({} in the code)
noMetadata == [k \in {} |-> "none"]

\* certificates.js:240,288  metadata: metadata || {}  the map comes from the body of the
\* request that creates the certificate
MetadataSamples == {noMetadata, [note |-> "kept", retry_count |-> "7"]}

\* { ...a, ...b }: the keys of b replace those of a
spread(a, b) ==
  [k \in DOMAIN a \cup DOMAIN b |-> IF k \in DOMAIN b THEN b[k] ELSE a[k]]

\* blockchainWorker.js:43-47  the metadata the worker writes, from the row it loaded
workerMetadata(metadata) ==
  spread(metadata, [blockchain_registered_at |-> "now", retry_count |-> "0"])

\* certificates.js:789-794  the metadata the route writes, from the row it loaded
routeMetadata(metadata) ==
  spread(metadata, [certificate_hash |-> "hash", blockchain_registered_at |-> "now",
                    registered_by |-> "user"])

idleWorker ==
  [alive |-> TRUE, job |-> 0, pc |-> "idle", result |-> noResult, metadata |-> noMetadata]

newCert ==
  [tx_hash |-> NoHash, blockchain_status |-> "pending", block_number |-> NULL,
   metadata |-> noMetadata]

\* Bull queue.add: the job enters the queue waiting
Enqueue(j, name, c) ==
  /\ jobs[j].state = "none"
  /\ \A i \in JobIds : i < j => jobs[i].state # "none"
  /\ jobs' = [jobs EXCEPT ![j] = [noJob EXCEPT !.state = "waiting", !.name = name,
                                               !.certificateId = c]]
  /\ UNCHANGED <<idemVars, breakerVars, certs, worker, emailJobs, emailQueueReady, route, mgrVars, extVars>>

\* queueConfig-fixed.js:246-280  addJob('blockchainRegistration', {certificateId})
addJob(j, c) == Enqueue(j, DefaultJobName, c)

\* a producer adds a job of the type the worker processes
AddNamedJob(j, c) == \E name \in ProcessorNames : Enqueue(j, name, c)

\* Bull moveToFailed: count the attempt, then delay for the backoff or fail for good
BullFail(job, reason) ==
  LET made == job.attemptsMade + 1
  IN  [job EXCEPT !.attemptsMade = made, !.owner = 0, !.failedReason = reason,
                  !.state = IF made < blockchainRegistrationOptions.attempts
                              THEN "delayed" ELSE "failed"]

\* Bull moveToCompleted
BullComplete(job, rv) ==
  [job EXCEPT !.state = "completed", !.owner = 0, !.returnvalue = rv]

catchBlock_persisting(error) == [persisted |-> TRUE, thrown |-> error]

\* blockchainWorker.js:68-86  the catch block: cert is declared inside the try block,
\* so reading cert?.metadata raises a ReferenceError before the update is issued
catchBlock(error) ==
  [persisted |-> FALSE, thrown |-> "ReferenceError: cert is not defined"]

\* blockchainWorker.js:71-82  the certificates after the catch block: its update to
\* 'failed' is written only when the block gets as far as the update
caught(c, block) ==
  IF block.persisted /\ c \in DOMAIN certs
    THEN [certs EXCEPT ![c] = [@ EXCEPT !.blockchain_status = "failed"]]
    ELSE certs

Dequeue_noLease(w, j) ==
  /\ worker[w].alive
  /\ worker[w].pc = "idle"
  /\ jobs[j].state \in {"waiting", "active"}
  /\ jobs[j].name \in ProcessorNames
  /\ jobs' = [jobs EXCEPT ![j] = [@ EXCEPT !.state = "active", !.owner = w, !.execs = @ + 1]]
  /\ worker' = [worker EXCEPT ![w] = [@ EXCEPT !.job = j, !.pc = "select"]]
  /\ UNCHANGED <<idemVars, breakerVars, certs, emailJobs, emailQueueReady, route, mgrVars, extVars>>

\* the queue's atomic dequeue: a waiting job becomes active, leased to worker w, and
\* the processor of its name starts (blockchainWorker.js:11-15)
Dequeue(w, j) ==
  /\ worker[w].alive
  /\ worker[w].pc = "idle"
  /\ jobs[j].state = "waiting"
  /\ IF jobs[j].name \in ProcessorNames
       THEN /\ jobs' = [jobs EXCEPT ![j] =
                          [@ EXCEPT !.state = "active", !.owner = w, !.execs = @ + 1]]
            /\ worker' = [worker EXCEPT ![w] = [@ EXCEPT !.job = j, !.pc = "select"]]
       ELSE /\ jobs' = [jobs EXCEPT ![j] = BullFail(@, "Missing process handler")]
            /\ UNCHANGED worker
  /\ UNCHANGED <<idemVars, breakerVars, certs, emailJobs, emailQueueReady, route, mgrVars, extVars>>

alreadyRegistered_never(cert) == FALSE

\* blockchainWorker.js:28  if (cert.tx_hash)
alreadyRegistered(cert) == cert.tx_hash # NoHash

alreadyRegisteredReturn_txHash(cert) == [status |-> "already_registered", tx_hash |-> NoHash]

\* blockchainWorker.js:30
alreadyRegisteredReturn(cert) == [status |-> "already_registered", tx_hash |-> cert.tx_hash]

\* worker w ends its execution: the job is settled and the worker is idle again
Settle(w, job) ==
  /\ jobs' = [jobs EXCEPT ![worker[w].job] = job]
  /\ worker' = [worker EXCEPT ![w] = idleWorker]

\* blockchainWorker.js:17-31  load the certificate; the select gives the row or an
\* {error} result, and the processor throws on an error as on a missing row
SelectCert(w) ==
  LET j == worker[w].job
      c == jobs[j].certificateId
  IN  /\ worker[w].alive
      /\ worker[w].pc = "select"
      /\ \E got \in {"ok", "error"} :
           IF got = "error" \/ c \notin DOMAIN certs
             THEN /\ Settle(w, BullFail(jobs[j], catchBlock("not found").thrown))
                  /\ certs' = caught(c, catchBlock("not found"))
           ELSE IF alreadyRegistered(certs[c])
             THEN /\ Settle(w, BullComplete(jobs[j], alreadyRegisteredReturn(certs[c])))
                  /\ UNCHANGED certs
           ELSE /\ worker' = [worker EXCEPT ![w] =
                                [@ EXCEPT !.pc = "register", !.metadata = certs[c].metadata]]
                /\ UNCHANGED <<jobs, certs>>
      /\ UNCHANGED <<idemVars, breakerVars, emailJobs, emailQueueReady, route, mgrVars, extVars>>

\* blockchainWorker.js:34  await paseoService.registerCertificate(cert)
RegisterOnChain(w) ==
  LET j == worker[w].job
      c == jobs[j].certificateId
  IN  /\ worker[w].alive
      /\ worker[w].pc = "register"
      /\ \E outcome \in Outcomes :
           LET rc == registerCertificate(cb, breakerFn, c, outcome, Len(submitted))
           IN  /\ Registered(rc, c, cb)
               /\ worker' = [worker EXCEPT ![w] = [@ EXCEPT !.pc = "update", !.result = rc.result]]
               /\ jobs' = [jobs EXCEPT ![j] = [@ EXCEPT !.depOutcomes =
                             IF rc.invoked THEN Append(@, outcome) ELSE Append(@, "rejected")]]
      /\ UNCHANGED <<idemVars, certs, emailJobs, emailQueueReady, route, mgrVars, extVars>>

\* blockchainWorker.js:36-49  write the hash and the status 'confirmed'; the result of
\* the update is not looked at, so an {error} goes unnoticed
UpdateCert(w) ==
  LET j == worker[w].job
      c == jobs[j].certificateId
  IN  /\ worker[w].alive
      /\ worker[w].pc = "update"
      /\ \E got \in {"ok", "error"} :
           certs' = IF got = "ok"
                      THEN [certs EXCEPT ![c] = [tx_hash |-> worker[w].result.txHash,
                                                 blockchain_status |-> "confirmed",
                                                 block_number |-> worker[w].result.blockNumber,
                                                 metadata |-> workerMetadata(worker[w].metadata)]]
                      ELSE certs
      /\ worker' = [worker EXCEPT ![w] = [@ EXCEPT !.pc = "notify"]]
      /\ UNCHANGED <<idemVars, breakerVars, jobs, emailJobs, emailQueueReady, route, mgrVars, extVars>>

\* blockchainWorker.js:53-66  add the notification job and return; addJob throws when
\* the email queue is not in the registry (queueConfig-fixed.js:236-241)
Notify(w) ==
  LET j == worker[w].job
      c == jobs[j].certificateId
      r == worker[w].result
  IN  /\ worker[w].alive
      /\ worker[w].pc = "notify"
      /\ IF emailQueueReady
           THEN /\ emailJobs' = emailJobs \cup
                      {[type |-> "certificate_registered", certificateId |-> c, txHash |-> r.txHash]}
                /\ Settle(w, BullComplete(jobs[j], [status |-> "success", tx_hash |-> r.txHash]))
                /\ UNCHANGED certs
           ELSE /\ Settle(w, BullFail(jobs[j], catchBlock("Queue not found").thrown))
                /\ certs' = caught(c, catchBlock("Queue not found"))
                /\ UNCHANGED emailJobs
      /\ UNCHANGED <<idemVars, breakerVars, emailQueueReady, route, mgrVars, extVars>>

\* Bull: the backoff delay of a delayed job has passed
Promote(j) ==
  /\ jobs[j].state = "delayed"
  /\ jobs' = [jobs EXCEPT ![j] = [@ EXCEPT !.state = "waiting"]]
  /\ UNCHANGED <<idemVars, breakerVars, certs, worker, emailJobs, emailQueueReady, route, mgrVars, extVars>>

\* a worker process dies while it holds a job
WorkerDies(w) ==
  /\ worker[w].alive
  /\ worker[w].job # 0
  /\ \E v \in Workers : v # w /\ worker[v].alive
  /\ worker' = [worker EXCEPT ![w] = [@ EXCEPT !.alive = FALSE]]
  /\ UNCHANGED <<idemVars, breakerVars, certs, jobs, emailJobs, emailQueueReady, route, mgrVars, extVars>>

\* the queue's stalled-job check: the lease of a dead worker has run out, the job is
\* requeued (queueConfig-fixed.js:222-224), or failed when it stalled too often
StalledCheck(j) ==
  /\ jobs[j].state = "active"
  /\ ~worker[jobs[j].owner].alive
  /\ jobs' = [jobs EXCEPT ![j] =
       IF @.stalledCount >= maxStalledCount
         THEN [@ EXCEPT !.state = "failed", !.owner = 0,
                        !.failedReason = "job stalled more than allowable limit"]
         ELSE [@ EXCEPT !.state = "waiting", !.owner = 0, !.stalledCount = @ + 1]]
  /\ UNCHANGED <<idemVars, breakerVars, certs, worker, emailJobs, emailQueueReady, route, mgrVars, extVars>>

\* nothing queued, every worker idle, no certificate registered
QueueStart ==
  /\ certs = [c \in CertIds |-> newCert]
  /\ jobs = [j \in JobIds |-> noJob]
  /\ worker = [w \in Workers |-> idleWorker]
  /\ emailJobs = {}
  /\ emailQueueReady = TRUE

(***************************************************************************)
(* POST /:id/register-blockchain (certificates.js:688-850)                 *)
(***************************************************************************)
RouteRequests == 1..NumRouteRequests

\* certificates.js:694
allowedRoles == {"super_admin", "org_admin", "issuer"}

Roles == {"super_admin", "issuer", "viewer"}

\* what awaiting a store operation gives: the rows, an {error} result, or an exception
StoreResults == {"ok", "error", "throws"}

newRoute ==
  [pc |-> "start", id |-> "none", result |-> noResult, responses |-> 0, code |-> 0,
   body |-> {}, metadata |-> noMetadata]

\* certificates.js:818-828  the properties of the 200 answer's body
successBody == {"success", "message", "data"}

\* res.status(code).json(...): the one response of the request
RouteRespond(rec, code) ==
  [rec EXCEPT !.pc = "done", !.responses = @ + 1, !.code = code]

\* certificates.js:829-849  the catch block: cert is declared inside the try block, so
\* reading cert?.metadata raises a ReferenceError; neither the update nor
\* res.status(500).json is reached and the async handler's promise rejects
routeCatchBlock(rec, error) == [rec EXCEPT !.pc = "hung"]

\* certificates.js:692-741  permissions, load of the certificate, early answers
RouteSelect(q) ==
  /\ route[q].pc = "start"
  /\ \E role \in Roles, id \in CertIds \cup {MissingId}, sameOrg \in BOOLEAN,
        got \in StoreResults :
       route' = [route EXCEPT ![q] =
         LET rec == [@ EXCEPT !.id = id]
         IN  IF role \notin allowedRoles THEN RouteRespond(rec, 403)
             ELSE IF got = "throws" THEN routeCatchBlock(rec, "select failed")
             ELSE IF got = "error" \/ id \notin DOMAIN certs THEN RouteRespond(rec, 404)
             ELSE IF role # "super_admin" /\ ~sameOrg THEN RouteRespond(rec, 403)
             ELSE IF certs[id].tx_hash # NoHash THEN RouteRespond(rec, 400)
             ELSE [rec EXCEPT !.pc = "register", !.metadata = certs[id].metadata]]
  /\ UNCHANGED <<idemVars, breakerVars, queueVars, mgrVars, extVars>>

\* certificates.js:774-780  registerCertificate inside the request
RouteRegister(q) ==
  /\ route[q].pc = "register"
  /\ \E outcome \in Outcomes :
       LET rc == registerCertificate(cb, breakerFn, route[q].id, outcome, Len(submitted))
       IN  /\ Registered(rc, route[q].id, cb)
           /\ route' = [route EXCEPT ![q] =
                IF rc.result.txHash = NoHash
                  THEN routeCatchBlock(@, "no transaction hash received")
                  ELSE [@ EXCEPT !.pc = "update", !.result = rc.result]]
  /\ UNCHANGED <<idemVars, queueVars, mgrVars, extVars>>

\* certificates.js:782-801  write the hash and 'confirmed'; an {error} is only logged
RouteUpdate(q) ==
  /\ route[q].pc = "update"
  /\ \E got \in StoreResults :
       /\ certs' = IF got = "ok"
                     THEN [certs EXCEPT ![route[q].id] =
                             [tx_hash |-> route[q].result.txHash,
                              blockchain_status |-> "confirmed",
                              block_number |-> route[q].result.blockNumber,
                              metadata |-> routeMetadata(route[q].metadata)]]
                     ELSE certs
       /\ route' = [route EXCEPT ![q] =
                      IF got = "throws" THEN routeCatchBlock(@, "update failed")
                      ELSE [@ EXCEPT !.pc = "log"]]
  /\ UNCHANGED <<idemVars, breakerVars, jobs, worker, emailJobs, emailQueueReady, mgrVars, extVars>>

\* certificates.js:803-828  activity log, then the 200 answer
RouteLog(q) ==
  /\ route[q].pc = "log"
  /\ \E got \in StoreResults :
       route' = [route EXCEPT ![q] =
                   IF got = "throws" THEN routeCatchBlock(@, "insert failed")
                   ELSE [RouteRespond(@, 200) EXCEPT !.body = successBody]]
  /\ UNCHANGED <<idemVars, breakerVars, queueVars, mgrVars, extVars>>

RouteStart == route = [q \in RouteRequests |-> newRoute]

(***************************************************************************)
(* QueueManager (queueConfig-fixed.js:49-529)                              *)
(***************************************************************************)
\* the counts Bull reports for a queue; waiting is sampled around the two limits
Counts == 0..MaxCount

WaitingSamples == {0, 100, 101, 150, 1000, 1001}

noHealth == "none"

\* queueConfig-fixed.js:345-357  calculateQueueHealth with failed >= 0.5
calculateQueueHealth_atLeastHalf(failed, completed, waiting) ==
  IF completed = 0 /\ failed = 0
    THEN IF waiting > 100 THEN "overloaded" ELSE "idle"
  ELSE IF 2 * failed >= failed + completed THEN "critical"
  ELSE IF 5 * failed > failed + completed THEN "warning"
  ELSE IF waiting > 1000 THEN "busy"
  ELSE "healthy"

\* queueConfig-fixed.js:345-357  failureRate = failed / (failed + completed) is a
\* double; for counts of this size the quotient is above the double 0.5 (0.2) exactly
\* when 2 * failed (5 * failed) is above failed + completed, which is how the
\* comparisons are computed here
calculateQueueHealth(failed, completed, waiting) ==
  IF completed = 0 /\ failed = 0
    THEN IF waiting > 100 THEN "overloaded" ELSE "idle"
  ELSE IF 2 * failed > failed + completed THEN "critical"
  ELSE IF 5 * failed > failed + completed THEN "warning"
  ELSE IF waiting > 1000 THEN "busy"
  ELSE "healthy"

\* queueConfig-fixed.js:325  getQueueStatus calls calculateQueueHealth(failed,
\* completed, waiting) with the counts it read
CalculateQueueHealth ==
  /\ hout = noHealth
  /\ hout' = calculateQueueHealth(hin.failed, hin.completed, hin.waiting)
  /\ UNCHANGED <<idemVars, extVars, breakerVars, queueVars, route, hin, mgr, qstat, overall, qjobs, opres>>

HealthStart ==
  /\ hin = [failed |-> 0, completed |-> 0, waiting |-> 0]
  /\ hout = noHealth

\* queueConfig-fixed.js:87-155  keys of queueDefinitions (the first three of the five)
QueueNames == {"blockchainRegistration", "emailNotifications", "certificateGeneration"}

\* queueConfig-fixed.js:50-54  constructor
newManager == [queues |-> {}, isConnected |-> FALSE, initialized |-> FALSE]

\* init() that raises unless every configured queue initialises
init_allOrNothing(m, ready) ==
  IF m.initialized
    THEN [mgr |-> m, raised |-> FALSE, constructed |-> {}]
    ELSE IF ready = {"blockchainRegistration", "emailNotifications",
                     "certificateGeneration"}
      THEN [mgr |-> [queues |-> ready, isConnected |-> TRUE, initialized |-> TRUE],
            raised |-> FALSE, constructed |-> ready]
      ELSE [mgr |-> m, raised |-> TRUE, constructed |-> ready]

\* init() without the check of this.initialized
init_again(m, ready) ==
  LET registry == m.queues \cup ready
      all == {"blockchainRegistration", "emailNotifications", "certificateGeneration"}
  IN  IF registry # {}
        THEN [mgr |-> [queues |-> registry, isConnected |-> TRUE, initialized |-> TRUE],
              raised |-> FALSE, constructed |-> all]
        ELSE [mgr |-> [m EXCEPT !.queues = registry], raised |-> TRUE,
              constructed |-> all]

\* queueConfig-fixed.js:76-189  init(): ready are the queues whose construction and
\* isReady() succeed; constructed are the queues new Bull(...) was called for
init(m, ready) ==
  IF m.initialized
    THEN [mgr |-> m, raised |-> FALSE, constructed |-> {}]
    ELSE LET registry == m.queues \cup ready
         IN  IF registry # {}
               THEN [mgr |-> [queues |-> registry, isConnected |-> TRUE,
                              initialized |-> TRUE],
                     raised |-> FALSE, constructed |-> QueueNames]
               ELSE [mgr |-> [m EXCEPT !.queues = registry],
                     raised |-> TRUE, constructed |-> QueueNames]

\* the outcomes of the queues' isReady() that an init() call can meet (none, one or all
\* of the queues get ready): they matter only while the manager is not initialised
Readies(m) ==
  IF m.initialized THEN {{}} ELSE {{}, {"blockchainRegistration"}, QueueNames}

\* counts for which calculateQueueHealth gives each of its six values
StatusSamples ==
  { [failed |-> 0, completed |-> 0, waiting |-> 0],
    [failed |-> 0, completed |-> 0, waiting |-> 150],
    [failed |-> 6, completed |-> 4, waiting |-> 0],
    [failed |-> 1, completed |-> 3, waiting |-> 0],
    [failed |-> 0, completed |-> 1, waiting |-> 1001],
    [failed |-> 0, completed |-> 1, waiting |-> 0] }

\* a queue whose counts cannot be read
statusError == [failed |-> -1, completed |-> -1, waiting |-> -1]

\* queueConfig-fixed.js:282-336  getQueueStatus: the health, or a status without one
getQueueStatusHealth(st) ==
  IF st = statusError THEN noHealth
  ELSE calculateQueueHealth(st.failed, st.completed, st.waiting)

\* queueConfig-fixed.js:372-376 where a later 'warning' replaces an earlier 'critical'
worseHealth_latest(overallHealth, health) ==
  IF health = "critical" THEN "critical"
  ELSE IF health = "warning" THEN "warning"
  ELSE overallHealth

\* queueConfig-fixed.js:372-376  one iteration's update of overallHealth
worseHealth(overallHealth, health) ==
  IF health = "critical" \/ overallHealth = "critical" THEN "critical"
  ELSE IF health = "warning" /\ overallHealth # "critical" THEN "warning"
  ELSE overallHealth

RECURSIVE overallHealthOf(_, _, _)
\* queueConfig-fixed.js:365-377  the loop over Object.keys(this.queues)
overallHealthOf(order, st, overallHealth) ==
  IF order = <<>> THEN overallHealth
  ELSE overallHealthOf(Tail(order), st,
                       worseHealth(overallHealth, getQueueStatusHealth(st[Head(order)])))

\* the orders in which the keys of a registry can be visited
Orders(registry) ==
  {o \in [1..Cardinality(registry) -> registry] :
     \A i, k \in 1..Cardinality(registry) : i # k => o[i] # o[k]}

MgrJobIds == {"j1", "j2"}

\* the states Bull keeps a job in, under the names clean() takes
JobStates == {"completed", "failed", "delayed", "active", "wait"}

noJobs == [q \in QueueNames |-> [j \in MgrJobIds |-> "none"]]

noResults == [total |-> 0, retried |-> 0, errors |-> <<>>, attempted |-> {}]

noOp ==
  [op |-> "none", queue |-> "none", type |-> "none", raised |-> FALSE,
   removed |-> {}, results |-> noResults, selected |-> {}, failing |-> {},
   mgrBefore |-> newManager, constructed |-> {}, closed |-> {}, ready |-> {}]

noOverall == [order |-> <<>>, overallHealth |-> noHealth, raised |-> FALSE]

\* queueConfig-fixed.js:359-385  getAllQueuesStatus
getAllQueuesStatus ==
  /\ \E ready \in Readies(mgr) :
       LET ini == init(mgr, ready)
       IN  /\ mgr' = ini.mgr
           /\ opres' = [noOp EXCEPT !.op = "getAllQueuesStatus", !.raised = ini.raised,
                                    !.constructed = ini.constructed, !.ready = ready,
                                    !.mgrBefore = mgr]
           /\ IF ini.raised
                THEN overall' = [noOverall EXCEPT !.raised = TRUE]
                ELSE \E order \in Orders(ini.mgr.queues) :
                       overall' = [order |-> order,
                                   overallHealth |->
                                     overallHealthOf(order, qstat, "healthy"),
                                   raised |-> FALSE]
  /\ UNCHANGED <<idemVars, extVars, breakerVars, queueVars, route, hin, hout, qstat, qjobs>>

\* queueConfig-fixed.js:231-244  getQueue: initialise first if needed, then look the
\* queue up in the registry
getQueue(m, queueName, ready) ==
  LET ini == init(m, ready)
  IN  [mgr |-> ini.mgr, raised |-> ini.raised \/ queueName \notin ini.mgr.queues]

\* queueConfig-fixed.js:452
validTypes == {"completed", "failed", "delayed", "active", "wait", "all"}

\* clean() that removes the chosen jobs whatever their state
clean_anyState(qj, type, removed) ==
  [j \in MgrJobIds |-> IF j \in removed THEN "none" ELSE qj[j]]

\* queue.clean(0, type): of the jobs of one queue, those chosen that are in state type
\* are removed (a locked or just-created job in that state may be left)
clean(qj, type, removed) ==
  [j \in MgrJobIds |-> IF j \in removed /\ qj[j] = type THEN "none" ELSE qj[j]]

\* queue.empty(): the waiting and delayed jobs of the queue are removed
empty(qj) ==
  [j \in MgrJobIds |-> IF qj[j] \in {"wait", "delayed"} THEN "none" ELSE qj[j]]

\* queueConfig-fixed.js:449-468  clearQueue
clearQueue(queueName, type) ==
  /\ \E ready \in Readies(mgr), removed \in SUBSET MgrJobIds :
       LET g == getQueue(mgr, queueName, ready)
           fails == g.raised \/ type \notin validTypes
           qj == qjobs[queueName]
       IN  /\ fails => removed = {}
           /\ mgr' = g.mgr
           /\ qjobs' = IF fails THEN qjobs
                        ELSE IF type = "all"
                          THEN [qjobs EXCEPT ![queueName] =
                                  clean(clean(empty(qj), "completed", removed),
                                        "failed", removed)]
                        ELSE [qjobs EXCEPT ![queueName] = clean(qj, type, removed)]
           /\ opres' = [noOp EXCEPT !.op = "clearQueue", !.queue = queueName,
                                    !.type = type, !.raised = fails,
                                    !.removed = {j \in MgrJobIds :
                                                   qjobs'[queueName][j] # qj[j]}]
  /\ UNCHANGED <<idemVars, extVars, breakerVars, queueVars, route, hin, hout, qstat, overall>>

\* queueConfig-fixed.js:12-16, 76-189  a call of init(); the manager's operations are
\* taken one at a time
Init ==
  /\ \E ready \in SUBSET QueueNames :
       LET ini == init(mgr, ready)
       IN  /\ mgr' = ini.mgr
           /\ opres' = [noOp EXCEPT !.op = "init", !.raised = ini.raised,
                                    !.constructed = ini.constructed, !.ready = ready,
                                    !.mgrBefore = mgr]
  /\ UNCHANGED <<idemVars, extVars, breakerVars, queueVars, route, hin, hout, qstat, overall,
                 qjobs>>

\* closeAll() that gives up at the first queue whose close() raises
closeAll_aborting(m, failing) ==
  IF failing \cap m.queues # {}
    THEN [mgr |-> m, raised |-> TRUE, closed |-> m.queues \ failing]
    ELSE [mgr |-> [queues |-> {}, isConnected |-> FALSE, initialized |-> FALSE],
          raised |-> FALSE, closed |-> m.queues]

\* queueConfig-fixed.js:484-500  closeAll(): close() is awaited for every queue of the
\* registry inside its own try/catch (failing are the queues whose close() raises),
\* then the registry and both flags are reset
closeAll(m, failing) ==
  [mgr |-> [queues |-> {}, isConnected |-> FALSE, initialized |-> FALSE],
   raised |-> FALSE, closed |-> m.queues]

\* queueConfig-fixed.js:484-500, 535-547  a call of closeAll()
CloseAll ==
  /\ \E failing \in SUBSET mgr.queues :
       LET c == closeAll(mgr, failing)
       IN  /\ mgr' = c.mgr
           /\ opres' = [noOp EXCEPT !.op = "closeAll", !.raised = c.raised,
                                    !.closed = c.closed, !.failing = failing,
                                    !.mgrBefore = mgr]
  /\ UNCHANGED <<idemVars, extVars, breakerVars, queueVars, route, hin, hout, qstat, overall,
                 qjobs>>

\* queueConfig-fixed.js:434-442 where a retry that raised leaves no errors entry
retryOne_dropped(results, job, raises) ==
  IF raises
    THEN [results EXCEPT !.attempted = @ \cup {job}]
    ELSE [results EXCEPT !.retried = @ + 1, !.attempted = @ \cup {job}]

\* queueConfig-fixed.js:434-442  one iteration: job.retry(), counted or collected
retryOne(results, job, raises) ==
  IF raises
    THEN [results EXCEPT !.errors = Append(@, job), !.attempted = @ \cup {job}]
    ELSE [results EXCEPT !.retried = @ + 1, !.attempted = @ \cup {job}]

RECURSIVE retryLoop(_, _, _)
\* queueConfig-fixed.js:433-443  the loop over failedJobs
retryLoop(failedJobs, failing, results) ==
  IF failedJobs = <<>> THEN results
  ELSE retryLoop(Tail(failedJobs), failing,
                 retryOne(results, Head(failedJobs), Head(failedJobs) \in failing))

\* queue.getFailed(0, limit): the failed jobs at the positions 0..limit
getFailed(qj, limit) ==
  LET failed == {j \in MgrJobIds : qj[j] = "failed"}
  IN  {o \in UNION {Orders(sel) : sel \in SUBSET failed} :
         Len(o) = IF Cardinality(failed) < limit + 1 THEN Cardinality(failed)
                  ELSE limit + 1}

\* queueConfig-fixed.js:423-447  retryFailedJobs; failing are the jobs whose retry()
\* raises, the others go back to waiting
retryFailedJobs(queueName, limit) ==
  /\ \E ready \in Readies(mgr) :
       LET g == getQueue(mgr, queueName, ready)
       IN  /\ mgr' = g.mgr
           /\ IF g.raised
                THEN /\ qjobs' = qjobs
                     /\ opres' = [noOp EXCEPT !.op = "retryFailedJobs",
                                              !.queue = queueName, !.raised = TRUE]
                ELSE \E failedJobs \in getFailed(qjobs[queueName], limit) :
                     \E failing \in SUBSET {failedJobs[i] : i \in 1..Len(failedJobs)} :
                       LET results ==
                             retryLoop(failedJobs, failing,
                                       [noResults EXCEPT !.total = Len(failedJobs)])
                       IN  /\ qjobs' = [qjobs EXCEPT ![queueName] =
                                          [j \in MgrJobIds |->
                                             IF j \in results.attempted \ failing
                                               THEN "wait" ELSE @[j]]]
                           /\ opres' = [noOp EXCEPT !.op = "retryFailedJobs",
                                           !.queue = queueName,
                                           !.results = results,
                                           !.selected = {failedJobs[i] :
                                                           i \in 1..Len(failedJobs)},
                                           !.failing = failing]
  /\ UNCHANGED <<idemVars, extVars, breakerVars, queueVars, route, hin, hout, qstat, overall>>

\* queues.routes.js: the routes that act on one queue
AdminOps == {"jobs", "retry", "pause", "resume", "clear"}

AdminRoles == {"super_admin", "org_admin", "issuer"}

\* the queue names a request can carry: those configured and one that is not
AdminQueueNames == QueueNames \cup {"unknownQueue"}

noAdmin ==
  [op |-> "none", role |-> "none", queueName |-> "none", status |-> 0,
   success |-> FALSE, code |-> "none"]

\* errorHandler.js:5-80  the answer to an error passed to next(): the status code and
\* error code of the error, or 500 and SERVER_ERROR when it has none
errorHandler(err) ==
  LET error == IF err.code = "23505"
                 THEN [statusCode |-> 400, code |-> "DUPLICATE_ERROR"]
               ELSE IF err.code = "PGRST116"
                 THEN [statusCode |-> 404, code |-> "NOT_FOUND"]
               ELSE IF err.name = "JsonWebTokenError"
                 THEN [statusCode |-> 401, code |-> "INVALID_TOKEN"]
               ELSE IF err.name = "TokenExpiredError"
                 THEN [statusCode |-> 401, code |-> "TOKEN_EXPIRED"]
               ELSE [statusCode |-> err.statusCode, code |-> err.code]
  IN  [status |-> IF error.statusCode = 0 THEN 500 ELSE error.statusCode,
       success |-> FALSE,
       code |-> IF error.code = "none" THEN "SERVER_ERROR" ELSE error.code]

\* queues.routes.js:3, 196, 286, 334, 375, 425  the routes name queueManager, which the
\* module never binds (it binds QueueManager): evaluating it raises a ReferenceError,
\* an error without statusCode or code
unboundQueueManager == [name |-> "ReferenceError", statusCode |-> 0, code |-> "none"]

\* the check of the role missing from the routes
superAdminOnly_open(role) == TRUE

\* queues.routes.js:186, 278, 326, 367, 415  req.user.role !== 'super_admin' is refused
superAdminOnly(role) == role = "super_admin"

\* queues.routes.js:184-431  a request to /:queueName/jobs, retry, pause, resume or
\* clear: 403 for another role; otherwise the try block raises at queueManager and the
\* catch passes the error to next(), that is to errorHandler
AdminRequest ==
  /\ \E op \in AdminOps, role \in AdminRoles, queueName \in AdminQueueNames :
       admin' = IF ~superAdminOnly(role)
                  THEN [op |-> op, role |-> role, queueName |-> queueName,
                        status |-> 403, success |-> FALSE, code |-> "none"]
                  ELSE LET answer == errorHandler(unboundQueueManager)
                       IN  [op |-> op, role |-> role, queueName |-> queueName,
                            status |-> answer.status, success |-> answer.success,
                            code |-> answer.code]
  /\ UNCHANGED <<idemVars, breakerVars, queueVars, route, mgrVars, paused, raceVars,
                 downVars>>

\* queueConfig-fixed.js:470-475  pauseQueue
pauseQueue(queueName) ==
  /\ \E ready \in Readies(mgr) :
       LET g == getQueue(mgr, queueName, ready)
       IN  /\ mgr' = g.mgr
           /\ paused' = IF g.raised THEN paused ELSE [paused EXCEPT ![queueName] = TRUE]
           /\ opres' = [noOp EXCEPT !.op = "pauseQueue", !.queue = queueName,
                                    !.raised = g.raised]
  /\ UNCHANGED <<idemVars, breakerVars, queueVars, route, hin, hout, qstat, overall,
                 qjobs, admin, raceVars, downVars>>

\* queueConfig-fixed.js:477-482  resumeQueue
resumeQueue(queueName) ==
  /\ \E ready \in Readies(mgr) :
       LET g == getQueue(mgr, queueName, ready)
       IN  /\ mgr' = g.mgr
           /\ paused' = IF g.raised THEN paused ELSE [paused EXCEPT ![queueName] = FALSE]
           /\ opres' = [noOp EXCEPT !.op = "resumeQueue", !.queue = queueName,
                                    !.raised = g.raised]
  /\ UNCHANGED <<idemVars, breakerVars, queueVars, route, hin, hout, qstat, overall,
                 qjobs, admin, raceVars, downVars>>

AdmStart ==
  /\ admin = noAdmin
  /\ paused = [q \in QueueNames |-> FALSE]

(***************************************************************************)
(* init() STEP BY STEP (queueConfig-fixed.js:76-189)                       *)
(*                                                                         *)
(* init() is an async function: it runs without interruption up to each    *)
(* await queue.isReady() and other calls run while it waits.               *)
(***************************************************************************)
InitCallers == 1..NumInitCallers

\* the operations that start init() on a manager that is not initialised
InitOps == {"init", "getQueue", "getAllQueuesStatus"}

\* queueConfig-fixed.js:87-155  Object.entries(queueDefinitions), in order
queueDefinitions == <<"blockchainRegistration", "emailNotifications", "certificateGeneration">>

\* a queue object: the call that constructed it and its key
Instance(k, q) == <<k, q>>

idleCall == [op |-> "none", pc |-> "idle", i |-> 0]

\* queueConfig-fixed.js:50-54  constructor: no queue is registered (0)
newInit ==
  [initialized |-> FALSE, queues |-> [q \in QueueNames |-> 0],
   call |-> [k \in InitCallers |-> idleCall], constructed |-> {}, dropped |-> {}]

\* queueConfig-fixed.js:77, 232, 360  if (this.initialized) / if (!this.initialized)
initializedGate(st) == st.initialized

\* queueConfig-fixed.js:161  new Bull(config.name, config.options) for the i-th key
construct(st, k, i) ==
  [st EXCEPT !.constructed = @ \cup {Instance(k, queueDefinitions[i])},
             !.call[k].pc = "isReady", !.call[k].i = i]

\* queueConfig-fixed.js:76-167, 231-234, 359-362  a caller enters init(), directly or
\* through getQueue / getAllQueuesStatus: the flag is read, and when it is not set the
\* first queue is constructed and its isReady() awaited
initEnter(k, op) ==
  /\ boot.call[k].pc = "idle"
  /\ boot' = IF initializedGate(boot)
              THEN [boot EXCEPT !.call[k] = [op |-> op, pc |-> "done", i |-> 0]]
              ELSE construct([boot EXCEPT !.call[k].op = op], k, 1)
  /\ UNCHANGED <<idemVars, breakerVars, queueVars, route, mgrVars, admVars, downVars>>

\* queueConfig-fixed.js:167-188  isReady() of the awaited queue settles: the queue is put
\* into the registry under its key (or the failure is logged), the loop goes on to the
\* next key, and after the last key the flags are set or the error is thrown
isReadySettles(k, ok) ==
  LET i == boot.call[k].i
      q == queueDefinitions[i]
      old == boot.queues[q]
      put == IF ok
               THEN [boot EXCEPT !.queues[q] = k,
                                !.dropped = IF old \notin {0, k}
                                              THEN @ \cup {Instance(old, q)} ELSE @]
               ELSE boot
  IN  /\ boot.call[k].pc = "isReady"
      /\ boot' = IF i < Len(queueDefinitions)
                  THEN construct(put, k, i + 1)
                ELSE IF \E n \in QueueNames : put.queues[n] # 0
                  THEN [put EXCEPT !.initialized = TRUE, !.call[k].pc = "done"]
                ELSE [put EXCEPT !.call[k].pc = "raised"]
      /\ UNCHANGED <<idemVars, breakerVars, queueVars, route, mgrVars, admVars, downVars>>

RaceStart == boot = newInit

(***************************************************************************)
(* SHUTDOWN ON SIGTERM / SIGINT (server.js:503-539,                        *)
(* queueConfig-fixed.js:484-500, 535-547)                                  *)
(*                                                                         *)
(* A signal runs its listeners one after the other, each up to its first   *)
(* await: the listener of the queue module, registered when the module is  *)
(* loaded, then the listener of server.js.  A Bull queue's close() starts  *)
(* the closing once and gives every caller the same promise.               *)
(***************************************************************************)
Signals == 1..NumSignals

HandlerKinds == {"queueModule", "server"}

Handlers == Signals \X HandlerKinds

idleHandler == [pc |-> "idle", todo |-> <<>>]

\* the process with the queues of registry open; instance: getInstance() was called
newDown(registry, instance) ==
  [registry |-> registry, instance |-> instance,
   closing |-> [q \in QueueNames |-> IF q \in registry THEN "open" ELSE "absent"],
   arrived |-> 0, atSignal |-> [sg \in Signals |-> {}],
   handler |-> [h \in Handlers |-> idleHandler], exited |-> FALSE]

\* Object.entries(this.queues): the registered queues in the order of their keys
entries(registry) == SelectSeq(queueDefinitions, LAMBDA q : q \in registry)

\* Bull queue.close(): the first call starts the closing
close(st, q) ==
  IF st.closing[q] = "open" THEN [st EXCEPT !.closing[q] = "closing"] ELSE st

\* queueConfig-fixed.js:489  await queue.close(): the caller goes on when the close has
\* settled, resolved or rejected
closeSettled(state) == state \in {"closed", "failed"}

\* where a listener goes on after its closeAll(): server.js calls server.close, the
\* listener of the queue module ends
afterCloseAll(h) == IF h[2] = "server" THEN "serverClose" ELSE "done"

\* queueConfig-fixed.js:496-498  the end of closeAll(): registry and flags are reset
resetRegistry(st, h) ==
  [st EXCEPT !.registry = {}, !.handler[h] = [pc |-> afterCloseAll(h), todo |-> <<>>]]

\* queueConfig-fixed.js:484-489  closeAll() up to its first await
startCloseAll(st, h) ==
  LET todo == entries(st.registry)
  IN  IF todo = <<>>
        THEN resetRegistry(st, h)
        ELSE [close(st, Head(todo)) EXCEPT !.handler[h] = [pc |-> "awaitClose", todo |-> todo]]

\* queueConfig-fixed.js:535-547  the listener of the queue module: if (instance)
queueModuleHandler(st, sg) ==
  IF st.instance
    THEN startCloseAll(st, <<sg, "queueModule">>)
    ELSE [st EXCEPT !.handler[<<sg, "queueModule">>].pc = "done"]

\* server.js:503-512, 522-531  the listener of server.js: getInstance().closeAll()
serverHandler(st, sg) ==
  startCloseAll([st EXCEPT !.instance = TRUE], <<sg, "server">>)

\* SIGTERM or SIGINT arrives: both listeners start
signal(sg) ==
  /\ ~down.exited
  /\ sg = down.arrived + 1
  /\ sg \in Signals
  /\ down' = serverHandler(
               queueModuleHandler(
                 [down EXCEPT !.arrived = sg, !.atSignal[sg] = down.registry], sg), sg)
  /\ UNCHANGED <<idemVars, breakerVars, queueVars, route, mgrVars, admVars, raceVars>>

\* Bull: the closing of queue q ends, with or without an error
closeSettles(q, ok) ==
  /\ ~down.exited
  /\ down.closing[q] = "closing"
  /\ down' = [down EXCEPT !.closing[q] = IF ok THEN "closed" ELSE "failed"]
  /\ UNCHANGED <<idemVars, breakerVars, queueVars, route, mgrVars, admVars, raceVars>>

\* queueConfig-fixed.js:487-498  closeAll() of listener h goes on after an await: the
\* next queue of its entries is closed, or the registry is reset after the last one
closeAllStep(h) ==
  LET rest == Tail(down.handler[h].todo)
  IN  /\ ~down.exited
      /\ down.handler[h].pc = "awaitClose"
      /\ closeSettled(down.closing[Head(down.handler[h].todo)])
      /\ down' = IF rest = <<>>
                   THEN resetRegistry(down, h)
                   ELSE [close(down, Head(rest)) EXCEPT !.handler[h].todo = rest]
      /\ UNCHANGED <<idemVars, breakerVars, queueVars, route, mgrVars, admVars, raceVars>>

\* server.js:515-519, 534-538  server.close(() => process.exit(0)): the HTTP server has
\* closed and the process exits
httpClosed(sg) ==
  /\ ~down.exited
  /\ down.handler[<<sg, "server">>].pc = "serverClose"
  /\ down' = [down EXCEPT !.exited = TRUE, !.handler[<<sg, "server">>].pc = "exited"]
  /\ UNCHANGED <<idemVars, breakerVars, queueVars, route, mgrVars, admVars, raceVars>>

\* queueConfig-fixed.js:167-169  an init() that is still running registers queue q
registers(q) ==
  /\ ~down.exited
  /\ down.instance
  /\ down.closing[q] = "absent"
  /\ down' = [down EXCEPT !.closing[q] = "open", !.registry = @ \cup {q}]
  /\ UNCHANGED <<idemVars, breakerVars, queueVars, route, mgrVars, admVars, raceVars>>

DownStart == down = newDown({}, FALSE)

ExtStart == AdmStart /\ RaceStart /\ DownStart

MgrStart ==
  /\ HealthStart
  /\ ExtStart
  /\ mgr = newManager
  /\ qstat = [q \in QueueNames |-> statusError]
  /\ overall = noOverall
  /\ qjobs = noJobs
  /\ opres = noOp

IdemStart ==
  /\ store = noRecord
  /\ req = [r \in Requests |-> newRequest]
  /\ expiries = 0
  /\ storeFailures = 0

InitIdem == IdemStart /\ BreakerStart /\ QueueStart /\ RouteStart /\ MgrStart

NextIdem ==
  \/ \E r \in Requests : CheckGet(r)
  \/ \E r \in Requests : CheckDel(r)
  \/ \E r \in Requests : CheckSetex(r)
  \/ \E r \in Requests : Handler(r)
  \/ \E r \in Requests : HandlerCrash(r)
  \/ \E r \in Requests : JsonWrapped(r)
  \/ Expire
  \/ Age

SpecIdem == InitIdem /\ [][NextIdem]_vars

InitBreaker == IdemStart /\ BreakerStart /\ QueueStart /\ RouteStart /\ MgrStart

NextBreaker ==
  \/ \E c \in CallCerts : CallRegister(c)
  \/ BreakerHalfOpen
  \/ WindowRoll

SpecBreaker == InitBreaker /\ [][NextBreaker]_vars

\* some certificates were registered earlier; the email queue may have failed to initialise
InitQueue ==
  /\ IdemStart
  /\ BreakerStart
  /\ \E registered \in SUBSET CertIds, metadata \in MetadataSamples :
       certs = [c \in CertIds |->
                  IF c \in registered
                    THEN [tx_hash |-> TxHash(c, 0), blockchain_status |-> "confirmed",
                          block_number |-> "block", metadata |-> metadata]
                    ELSE [newCert EXCEPT !.metadata = metadata]]
  /\ jobs = [j \in JobIds |-> noJob]
  /\ worker = [w \in Workers |-> idleWorker]
  /\ emailJobs = {}
  /\ emailQueueReady \in BOOLEAN
  /\ RouteStart
  /\ MgrStart

NextQueue ==
  \/ \E j \in JobIds, c \in CertIds \cup {MissingId} : addJob(j, c)
  \/ \E j \in JobIds, c \in CertIds \cup {MissingId} : AddNamedJob(j, c)
  \/ \E w \in Workers, j \in JobIds : Dequeue(w, j)
  \/ \E w \in Workers : SelectCert(w)
  \/ \E w \in Workers : RegisterOnChain(w)
  \/ \E w \in Workers : UpdateCert(w)
  \/ \E w \in Workers : Notify(w)
  \/ \E j \in JobIds : Promote(j)
  \/ \E w \in Workers : WorkerDies(w)
  \/ \E j \in JobIds : StalledCheck(j)

SpecQueue == InitQueue /\ [][NextQueue]_vars

\* requests arrive at a server whose certificate may or may not be registered already
InitRoute ==
  /\ IdemStart
  /\ BreakerStart
  /\ \E registered \in SUBSET CertIds, metadata \in MetadataSamples :
       certs = [c \in CertIds |->
                  IF c \in registered
                    THEN [tx_hash |-> TxHash(c, 0), blockchain_status |-> "confirmed",
                          block_number |-> "block", metadata |-> metadata]
                    ELSE [newCert EXCEPT !.metadata = metadata]]
  /\ jobs = [j \in JobIds |-> noJob]
  /\ worker = [w \in Workers |-> idleWorker]
  /\ emailJobs = {}
  /\ emailQueueReady = TRUE
  /\ RouteStart
  /\ MgrStart

NextRoute ==
  \/ \E q \in RouteRequests : RouteSelect(q)
  \/ \E q \in RouteRequests : RouteRegister(q)
  \/ \E q \in RouteRequests : RouteUpdate(q)
  \/ \E q \in RouteRequests : RouteLog(q)

SpecRoute == InitRoute /\ [][NextRoute]_vars

\* calculateQueueHealth is called with any counts
InitHealth ==
  /\ IdemStart /\ BreakerStart /\ QueueStart /\ RouteStart /\ ExtStart
  /\ hin \in [failed : Counts, completed : Counts, waiting : WaitingSamples]
  /\ hout = noHealth
  /\ mgr = newManager
  /\ qstat = [q \in QueueNames |-> statusError]
  /\ overall = noOverall
  /\ qjobs = noJobs
  /\ opres = noOp

\* the manager is new or was initialised with some of its queues; each queue has counts
InitStatus ==
  /\ IdemStart /\ BreakerStart /\ QueueStart /\ RouteStart /\ HealthStart /\ ExtStart
  /\ \E ready \in SUBSET QueueNames : mgr = IF ready = {} THEN newManager
                                               ELSE init(newManager, ready).mgr
  /\ qstat \in [QueueNames -> StatusSamples \cup {statusError}]
  /\ overall = noOverall
  /\ qjobs = noJobs
  /\ opres = noOp

NextStatus == getAllQueuesStatus

SpecStatus == InitStatus /\ [][NextStatus]_vars

\* the types clearQueue is called with: the valid ones and one that is not
ClearTypes == validTypes \cup {"paused"}

RetryLimits == {0, 1}

\* one queue holds jobs in any states, a second one a job in any state; the manager is
\* new, partly or fully initialised
InitJobs ==
  /\ IdemStart /\ BreakerStart /\ QueueStart /\ RouteStart /\ HealthStart /\ ExtStart
  /\ \E ready \in {{}, {"blockchainRegistration"}, QueueNames} :
       mgr = IF ready = {} THEN newManager ELSE init(newManager, ready).mgr
  /\ qstat = [q \in QueueNames |-> statusError]
  /\ overall = noOverall
  /\ \E qj \in [MgrJobIds -> JobStates], other \in JobStates :
       qjobs = [q \in QueueNames |->
                  IF q = "blockchainRegistration" THEN qj
                  ELSE IF q = "emailNotifications"
                    THEN [j \in MgrJobIds |-> IF j = "j1" THEN other ELSE "none"]
                  ELSE noJobs[q]]
  /\ opres = noOp

NextJobs ==
  \/ \E q \in QueueNames, t \in ClearTypes : clearQueue(q, t)
  \/ \E q \in QueueNames, limit \in RetryLimits : retryFailedJobs(q, limit)

SpecJobs == InitJobs /\ [][NextJobs]_vars

\* a new manager; it is initialised explicitly or by the first status request, and
\* closed on a termination signal
InitLifecycle ==
  /\ IdemStart /\ BreakerStart /\ QueueStart /\ RouteStart /\ MgrStart

NextLifecycle ==
  \/ Init
  \/ CloseAll
  \/ getAllQueuesStatus

SpecLifecycle == InitLifecycle /\ [][NextLifecycle]_vars

\* the manager is new or was initialised with some of its queues
InitAdmin ==
  /\ IdemStart /\ BreakerStart /\ QueueStart /\ RouteStart /\ HealthStart /\ ExtStart
  /\ \E ready \in SUBSET QueueNames : mgr = IF ready = {} THEN newManager
                                               ELSE init(newManager, ready).mgr
  /\ qstat = [q \in QueueNames |-> statusError]
  /\ overall = noOverall
  /\ qjobs = noJobs
  /\ opres = noOp

NextAdmin ==
  \/ AdminRequest
  \/ \E q \in QueueNames : pauseQueue(q)
  \/ \E q \in QueueNames : resumeQueue(q)

SpecAdmin == InitAdmin /\ [][NextAdmin]_vars

\* the worker and the register-blockchain route work on the same certificates
InitRegistration == InitQueue

\* one worker runs the executions of one named job while one request is in the route
NextRegistration ==
  \/ \E c \in CertIds : AddNamedJob(1, c)
  \/ Dequeue(1, 1)
  \/ SelectCert(1)
  \/ RegisterOnChain(1)
  \/ UpdateCert(1)
  \/ Notify(1)
  \/ Promote(1)
  \/ RouteSelect(1)
  \/ RouteRegister(1)
  \/ RouteUpdate(1)
  \/ RouteLog(1)

SpecRegistration == InitRegistration /\ [][NextRegistration]_vars

\* several callers use a manager that is not initialised yet
InitInitRace ==
  /\ IdemStart /\ BreakerStart /\ QueueStart /\ RouteStart
  /\ HealthStart /\ AdmStart /\ DownStart
  /\ mgr = newManager
  /\ qstat = [q \in QueueNames |-> statusError]
  /\ overall = noOverall
  /\ qjobs = noJobs
  /\ opres = noOp
  /\ boot = newInit

NextInitRace ==
  \/ \E k \in InitCallers, op \in InitOps : initEnter(k, op)
  \/ \E k \in InitCallers, ok \in BOOLEAN : isReadySettles(k, ok)

SpecInitRace == InitInitRace /\ [][NextInitRace]_vars

\* the process runs with some of the queues registered when a signal arrives
InitShutdown ==
  /\ IdemStart /\ BreakerStart /\ QueueStart /\ RouteStart
  /\ HealthStart /\ AdmStart /\ RaceStart
  /\ mgr = newManager
  /\ qstat = [q \in QueueNames |-> statusError]
  /\ overall = noOverall
  /\ qjobs = noJobs
  /\ opres = noOp
  /\ \E registry \in SUBSET QueueNames, instance \in BOOLEAN :
       /\ registry # {} => instance
       /\ down = newDown(registry, instance)

NextShutdown ==
  \/ \E sg \in Signals : signal(sg)
  \/ \E q \in QueueNames, ok \in BOOLEAN : closeSettles(q, ok)
  \/ \E h \in Handlers : closeAllStep(h)
  \/ \E sg \in Signals : httpClosed(sg)
  \/ \E q \in QueueNames : registers(q)

SpecShutdown == InitShutdown /\ [][NextShutdown]_vars

NextHealth == CalculateQueueHealth

SpecHealth == InitHealth /\ [][NextHealth]_vars

(***************************************************************************)
(* Claims about the idempotency guard.                                     *)
(***************************************************************************)
\* request r got past the guard without a marker of its own (stale marker or store error)
Unguarded(r) ==
  \/ req[r].pc = "del"
  \/ req[r].pc \in {"handler", "crashed"} /\ ~req[r].wrapped
  \/ req[r].ran /\ ~req[r].wrapped

\* no TTL has run out and the store has answered every operation
NoFault == expiries = 0 /\ storeFailures = 0 /\ \A r \in Requests : ~Unguarded(r)

\* C1: of the concurrent requests that carry the same idempotency key, whatever the
\* interleaving of their store reads and writes, exactly one executes the route handler;
\* every other answered request got the 409 conflict or the replayed response.
C1_ExactlyOneExecutes ==
  NoFault =>
    /\ Cardinality({r \in Requests : req[r].ran}) <= 1
    /\ \A r \in Requests :
         req[r].pc = "done" /\ ~req[r].ran => req[r].code = 409 \/ req[r].replayed = "true"

\* r's check started after q, the only earlier request, had been answered by the handler
SecondAfterFirst(q, r) ==
  /\ q # r
  /\ req[r].pc # "get"
  /\ req[r].prior = {q}
  /\ req[r].priorDone = {q}
  /\ req[q].ran
  /\ expiries = 0
  /\ storeFailures = 0

IsReplayOf(q, r) ==
  /\ req[r].pc = "done"
  /\ req[r].code = req[q].code
  /\ req[r].wire = req[q].wire
  /\ req[r].replayed = "true"
  /\ ~req[r].ran

\* C2 as claimed: a request sent again after the first was answered gets the first
\* response again (same status, same body, flagged as replay, handler not run), whatever
\* status code the first response had.
C2_ReplayEveryStatus ==
  \A q, r \in Requests : SecondAfterFirst(q, r) => IsReplayOf(q, r)

\* C2 as amended: the same, for a first response with a status code below 500.
C2_ReplayBelow500 ==
  \A q, r \in Requests :
    SecondAfterFirst(q, r) /\ req[q].code < 500 => IsReplayOf(q, r)

C2_Witness ==
  \E q, r \in Requests :
    /\ SecondAfterFirst(q, r)
    /\ req[q].code = 400
    /\ req[q].wire = "tNull"
    /\ IsReplayOf(q, r)

(***************************************************************************)
(* Claims about the circuit breaker and registerCertificate.               *)
(***************************************************************************)
\* the window of breaker b holds at least volumeThreshold calls and their failure rate
\* is above errorThresholdPercentage
RateExceeded(b) ==
  /\ b.fires >= blockchainBreakerOptions.volumeThreshold
  /\ b.failures * 100 > blockchainBreakerOptions.errorThresholdPercentage * b.fires

C8_AlwaysValidResult ==
  last.settled # "none" =>
    /\ last.result.status \in {"confirmed", "queued", "failed"}
    /\ last.result.success = (last.result.status # "failed")
    /\ (last.result.txHash = NoHash) = (last.result.status = "failed")
    /\ (last.result.status = "confirmed") = (last.settled = "ok")

C8_Witness ==
  /\ last.settled = "rejected"
  /\ last.result.status = "queued"
  /\ Len(submitted) > 0

(***************************************************************************)
(* Claims about the registration queue and its worker.                     *)
(***************************************************************************)
MaxAttempts == blockchainRegistrationOptions.attempts

\* the dependency was called for the job and failed every time
AlwaysFailing(job) ==
  /\ job.depOutcomes # <<>>
  /\ \A i \in DOMAIN job.depOutcomes : job.depOutcomes[i] \in {"error", "timeout"}

\* C3: a registration job whose blockchain dependency call fails on every attempt is
\* executed exactly maxAttempts times and then stays failed with attemptsMade =
\* maxAttempts; it is never reported completed.
C3_AlwaysFailingJobEndsFailed ==
  \A j \in JobIds :
    AlwaysFailing(jobs[j]) =>
      /\ jobs[j].state # "completed"
      /\ jobs[j].execs <= MaxAttempts
      /\ jobs[j].state = "failed" /\ jobs[j].stalledCount = 0
           => jobs[j].attemptsMade = MaxAttempts /\ jobs[j].execs = MaxAttempts

\* C4: a job for certificate C1 enqueued through addJob is processed by the worker, and
\* when its dependency call times out it is retried: it is completed only after the
\* calls timed out twice and succeeded the third time, with attemptsMade = 3, the
\* certificate confirmed with the hash of the successful call and a follow-up job for
\* C1 in the email queue.
C4_TimeoutsTwiceThenConfirmed ==
  \A j \in JobIds :
    LET job == jobs[j]
        c == job.certificateId
    IN  /\ job.name = DefaultJobName /\ c \in CertIds /\ job.stalledCount = 0
             => ~(job.state = "failed" /\ job.execs = 0)
        /\ c \in CertIds /\ job.state = "completed" /\ job.depOutcomes # <<>>
             /\ job.depOutcomes[1] = "timeout"
             => /\ job.depOutcomes = <<"timeout", "timeout", "ok">>
                /\ job.attemptsMade = 3
                /\ certs[c].blockchain_status = "confirmed"
                /\ certs[c].tx_hash \in {TxHash(c, n) : n \in 1..Len(submitted)}
                /\ \E e \in emailJobs : e.certificateId = c

\* the step in which worker w leaves the load of the certificate (SelectCert)
LeavesSelect(w) == worker[w].pc = "select" /\ worker'[w].pc # "select"

\* C5: when the worker processes a job whose certificate already has a tx_hash (the load
\* of the certificate gave the row), the job completes with status 'already_registered'
\* and the stored tx_hash, and in that execution the dependency is not called, the
\* certificate is not written and no follow-up job is enqueued.
C5_AlreadyRegisteredShortCircuit ==
  [][\A w \in Workers :
       LET j == worker[w].job
           c == jobs[j].certificateId
       IN  /\ worker[w].pc = "idle" /\ worker'[w].pc = "select"
                => UNCHANGED <<certs, submitted, calls, emailJobs>>
           /\ LeavesSelect(w) /\ c \in CertIds /\ certs[c].tx_hash # NoHash
                => /\ jobs'[j].depOutcomes = jobs[j].depOutcomes
                   /\ worker'[w].pc = "idle"
                   /\ UNCHANGED <<certs, submitted, calls, emailJobs>>
                   /\ jobs'[j].attemptsMade = jobs[j].attemptsMade
                        => /\ jobs'[j].state = "completed"
                           /\ jobs'[j].returnvalue =
                                [status |-> "already_registered",
                                 tx_hash |-> certs[c].tx_hash]]_vars

C5_Witness ==
  \E j \in JobIds :
    /\ jobs[j].state = "completed"
    /\ jobs[j].returnvalue.status = "already_registered"
    /\ jobs[j].returnvalue.tx_hash = certs[jobs[j].certificateId].tx_hash
    /\ jobs[j].depOutcomes = <<>>

\* C6: a job whose certificateId is in no row of the store is executed exactly once,
\* moves to failed and is never put back for a retry; the dependency is never called.
C6_MissingCertFailsOnce ==
  \A j \in JobIds :
    jobs[j].certificateId = MissingId /\ jobs[j].name \in ProcessorNames =>
      /\ jobs[j].execs <= 1
      /\ jobs[j].state # "delayed"
      /\ jobs[j].depOutcomes = <<>>

\* the live workers that hold job j
Holders(j) == {w \in Workers : worker[w].alive /\ worker[w].job = j}

\* C9: at every instant at most one worker holds a given job as active, also after a
\* job whose worker died was requeued and taken by another worker.
C9_AtMostOneActiveLease ==
  \A j \in JobIds :
    /\ Cardinality(Holders(j)) <= 1
    /\ \A w \in Holders(j) : jobs[j].state = "active" /\ jobs[j].owner = w

C9_Witness ==
  \E j \in JobIds :
    /\ jobs[j].stalledCount > 0
    /\ jobs[j].state = "active"
    /\ \E w \in Workers : ~worker[w].alive /\ worker[w].job = j
    /\ Holders(j) # {}

(***************************************************************************)
(* Claims about the register-blockchain route.                             *)
(***************************************************************************)
\* C10: every register-blockchain request gets exactly one HTTP response on every path
\* through the handler, the error branch included: a request whose handler has ended
\* has been answered once.
C10_EveryPathAnswers ==
  \A q \in RouteRequests :
    /\ route[q].responses <= 1
    /\ route[q].pc \in {"done", "hung"} => route[q].responses = 1

\* C11: a register-blockchain request answered 200 has enqueued a registration job and
\* carries a message and the job's id; the blockchain dependency was not invoked inside
\* the request.
C11_EnqueuesAndAnswersWithJobId ==
  \A q \in RouteRequests :
    route[q].code = 200
      => /\ \E j \in JobIds : jobs[j] # noJob
         /\ {"message", "jobId"} \subseteq route[q].body
         /\ route[q].result = noResult

\* C19: if an operation on the idempotency store fails while the guard handles a keyed
\* request, the guard answers nothing of its own: the request is passed to the route
\* handler, which runs once, and the handler's status and body reach the client
\* unchanged.
C19_StoreFailurePassesThrough ==
  \A r \in Requests :
    req[r].failed =>
      /\ req[r].pc \in {"handler", "crashed", "done"}
      /\ req[r].pc = "done" =>
           /\ req[r].ran
           /\ req[r].code = req[r].out.code
           /\ req[r].body = req[r].out.body
           /\ req[r].wire = JSONstringify(req[r].out.body)
           /\ req[r].replayed # "true"

C19_Witness ==
  \E r \in Requests :
    /\ req[r].failed /\ req[r].saw = "none" /\ ~req[r].wrapped
    /\ req[r].pc = "done" /\ req[r].ran /\ req[r].code = 201

\* C20: a 'processing' marker does not block its key for ever: after the handler of the
\* first request crashed without answering, a later request with the same key that
\* finds the marker within the processing TTL is answered 409 REQUEST_IN_PROGRESS
\* without the handler being run, and one that finds the TTL elapsed (the marker gone,
\* or stale and then deleted) goes on to the handler and is not answered 409.
C20_MarkerNeverBlocksForever ==
  \A q, r \in Requests :
    (q # r /\ req[q].pc = "crashed" /\ q \in req[r].prior) =>
      /\ req[r].saw = "processing" =>
           /\ req[r].pc = "done" /\ req[r].code = 409
           /\ req[r].body = "REQUEST_IN_PROGRESS" /\ ~req[r].ran
      /\ req[r].saw \in {"stale", "none"} =>
           /\ req[r].pc \in {"del", "setex", "handler", "json", "crashed", "done"}
           /\ req[r].pc = "done" => req[r].ran /\ req[r].code # 409

C20_Witness ==
  \E q, r \in Requests :
    /\ q # r /\ req[q].pc = "crashed" /\ req[q].wrapped /\ q \in req[r].prior
    /\ req[r].saw = "stale" /\ req[r].pc = "done" /\ req[r].ran
    /\ store.status = "none"

C13_OverallIsWorst ==
  overall.overallHealth # noHealth =>
    LET healths == {getQueueStatusHealth(qstat[q]) : q \in mgr.queues}
    IN  /\ overall.overallHealth \in {"critical", "warning", "healthy"}
        /\ overall.overallHealth = "critical" <=> "critical" \in healths
        /\ overall.overallHealth = "warning"
             <=> ("critical" \notin healths /\ "warning" \in healths)

C13_Witness ==
  /\ Len(overall.order) >= 2
  /\ getQueueStatusHealth(qstat[overall.order[1]]) = "critical"
  /\ getQueueStatusHealth(qstat[overall.order[2]]) = "warning"
  /\ overall.overallHealth = "critical"

\* C14: clearQueue(q, t) with t one of completed, failed, delayed, active, wait removes
\* only jobs of queue q that are in state t: the jobs of q in every other state and all
\* jobs of every other queue are unchanged; clearQueue(q, 'failed') leaves the numbers of
\* waiting and completed jobs unchanged.
C14_ClearOnlyThatState ==
  [][(opres'.op = "clearQueue" /\ opres'.type \in validTypes \ {"all"}) =>
       /\ \A q \in QueueNames, j \in MgrJobIds :
            (q # opres'.queue \/ qjobs[q][j] # opres'.type)
              => qjobs'[q][j] = qjobs[q][j]
       /\ opres'.type = "failed" =>
            \A t \in {"wait", "completed"} :
              Cardinality({j \in MgrJobIds : qjobs'[opres'.queue][j] = t})
                = Cardinality({j \in MgrJobIds : qjobs[opres'.queue][j] = t})]_vars

C14_Witness ==
  /\ opres.op = "clearQueue" /\ opres.type = "failed" /\ ~opres.raised
  /\ opres.removed # {}
  /\ \E k \in MgrJobIds : qjobs[opres.queue][k] = "wait"
  /\ \E q \in QueueNames \ {opres.queue}, k \in MgrJobIds : qjobs[q][k] = "failed"

\* C15: retryFailedJobs attempts a retry on every failed job it selected even when an
\* earlier retry raised; it returns {total, retried, errors} with total = retried +
\* length(errors) and one errors entry per job whose retry raised, and a per-job
\* failure does not make it raise.
C15_RetryCollectsErrors ==
  (opres.op = "retryFailedJobs" /\ opres.selected # {}) =>
    LET res == opres.results
    IN  /\ ~opres.raised
        /\ res.attempted = opres.selected
        /\ res.total = Cardinality(opres.selected)
        /\ res.total = res.retried + Len(res.errors)
        /\ {res.errors[i] : i \in 1..Len(res.errors)} = opres.failing
        /\ Len(res.errors) = Cardinality(opres.failing)
        /\ \A j \in opres.selected \ opres.failing : qjobs[opres.queue][j] = "wait"

C15_Witness ==
  /\ opres.op = "retryFailedJobs"
  /\ opres.results.total = 2
  /\ opres.results.retried = 1
  /\ Len(opres.results.errors) = 1
  /\ opres.results.errors[1] \in opres.failing

\* C16: init() on a manager that is not initialised raises if and only if none of the
\* configured queues initialises. When at least one does, init() succeeds with
\* initialized = true (and isConnected = true) and the registry holds exactly the queues
\* that initialised; when it raises, initialized and isConnected stay false. The manager
\* never reports itself ready with an empty registry.
C16_InitRaisesIffNone ==
  /\ mgr.initialized => mgr.queues # {}
  /\ (opres.op = "init" /\ ~opres.mgrBefore.initialized) =>
       /\ opres.raised <=> opres.ready = {}
       /\ opres.ready # {} =>
            mgr.initialized /\ mgr.isConnected /\ mgr.queues = opres.ready
       /\ opres.raised => ~mgr.initialized /\ ~mgr.isConnected /\ mgr.queues = {}

C16_Witness ==
  /\ opres.op = "init" /\ ~opres.mgrBefore.initialized /\ ~opres.raised
  /\ opres.ready # {} /\ opres.ready # QueueNames
  /\ mgr.initialized /\ mgr.queues = opres.ready

\* C17: init() on a manager that is already initialized is a no-op: no queue is
\* constructed, the registry holds the same queues as before, and initialized and
\* isConnected are unchanged, however often it is repeated.
C17_InitTwiceNoOp ==
  (opres.op = "init" /\ opres.mgrBefore.initialized) =>
    /\ ~opres.raised
    /\ opres.constructed = {}
    /\ mgr = opres.mgrBefore

C17_Witness ==
  /\ opres.op = "init" /\ opres.mgrBefore.initialized
  /\ ~(opres.ready \subseteq opres.mgrBefore.queues)
  /\ mgr.queues = opres.mgrBefore.queues

\* C18: closeAll() attempts to close every queue of the registry even when closing an
\* earlier one raised, never raises itself, and when it returns the registry is empty,
\* initialized = false and isConnected = false.
C18_CloseAllResets ==
  opres.op = "closeAll" =>
    /\ ~opres.raised
    /\ opres.closed = opres.mgrBefore.queues
    /\ mgr.queues = {} /\ ~mgr.initialized /\ ~mgr.isConnected

C18_Witness ==
  /\ opres.op = "closeAll"
  /\ opres.failing # {} /\ opres.failing # opres.mgrBefore.queues
  /\ mgr = newManager

(***************************************************************************)
(* Claims about the administrative queue routes.                           *)
(***************************************************************************)
\* C21: a request of a super_admin to one of the administrative queue routes that names
\* a queue which is not in the registry is answered with status 404, success = false
\* and a machine-readable error code.
C21_UnknownQueueIs404 ==
  (admin.role = "super_admin" /\ admin.queueName \notin QueueNames) =>
    /\ admin.status = 404
    /\ ~admin.success
    /\ admin.code # "none"

\* C22: a retry, pause, resume or clear request of a user whose role is not super_admin
\* is answered with 403 and success = false, and performs no queue operation: the
\* registry, the jobs and the paused flag of every queue are unchanged.
C22_NonSuperAdminRefused ==
  [][(admin' # admin /\ admin'.role # "super_admin"
        /\ admin'.op \in {"retry", "pause", "resume", "clear"}) =>
       /\ admin'.status = 403
       /\ ~admin'.success
       /\ UNCHANGED <<mgr, qjobs, paused, jobs, emailJobs>>]_vars

C22_Witness ==
  /\ admin.role = "org_admin" /\ admin.op = "resume" /\ admin.status = 403
  /\ admin.queueName \in mgr.queues /\ paused[admin.queueName]

(***************************************************************************)
(* Claims about a registration's effects on the certificate and the chain. *)
(***************************************************************************)
\* the last call of the dependency made for the job failed
LastCallFailed(job) ==
  /\ job.depOutcomes # <<>>
  /\ job.depOutcomes[Len(job.depOutcomes)] \in {"error", "timeout"}

\* C23: when the blockchain operation fails during a worker execution, by the end of
\* that execution the certificate's blockchain_status is persisted as 'failed' and the
\* execution re-raises, so the job is retried or failed and never reported completed.
C23_FailurePersistedAndRaised ==
  \A j \in JobIds :
    LET job == jobs[j]
        c == job.certificateId
    IN  (LastCallFailed(job) /\ c \in CertIds /\ job.owner = 0
           /\ job.state \in {"completed", "failed", "delayed"})
          => /\ job.state # "completed"
             /\ certs[c].blockchain_status = "failed"

\* the step in which worker w writes the registration to the certificate (UpdateCert)
WritesRegistration(w) ==
  /\ worker[w].pc = "update" /\ worker'[w].pc = "notify"
  /\ certs' # certs

\* C24: the metadata the worker writes with a successful registration is a merge: every
\* key the certificate's metadata held before the update is still there with its
\* previous value; only absent keys are added.
C24_MetadataMerged ==
  [][\A w \in Workers :
       LET c == jobs[worker[w].job].certificateId
       IN  WritesRegistration(w) =>
             \A k \in DOMAIN certs[c].metadata :
               /\ k \in DOMAIN certs'[c].metadata
               /\ certs'[c].metadata[k] = certs[c].metadata[k]]_vars

\* the transactions the chain accepted for certificate c
Submissions(c) == {i \in DOMAIN submitted : submitted[i] = c}

\* C27: over any interleaving of worker executions and register-blockchain requests,
\* the dependency successfully submits a transaction for a certificate at most once.
C27_SubmitsAtMostOnce ==
  \A c \in CertIds : Cardinality(Submissions(c)) <= 1

\* the hashes of transactions the chain accepted
RealHashes ==
  {TxHash(c, n) : c \in CallCerts, n \in 0..Len(submitted)}

\* C28: a certificate is 'confirmed' only with the real hash of a successful dependency
\* call; a fallback or failed result never leads the worker or the route to persist
\* 'confirmed' or to enqueue the certificate_registered notification.
C28_ConfirmedOnlyWithRealHash ==
  /\ \A c \in CertIds :
       certs[c].blockchain_status = "confirmed" => certs[c].tx_hash \in RealHashes
  /\ \A e \in emailJobs : e.txHash \in RealHashes

C29_SubmitsOwnData ==
  (last.invoked /\ last.settled = "ok") =>
    /\ submitted # <<>>
    /\ submitted[Len(submitted)] = last.cert

(***************************************************************************)
(* Claims about concurrent initialisation and about shutdown.              *)
(***************************************************************************)
\* the queue objects constructed for key q
ConstructedFor(q) == {inst \in boot.constructed : inst[2] = q}

\* C25: for any interleaving of concurrent init(), getQueue() and getAllQueuesStatus()
\* calls on a manager that is not yet initialized, initialization runs once: each
\* configured queue is constructed at most once, and no constructed queue is dropped
\* from the registry without being closed.
C25_InitRunsOnce ==
  /\ \A q \in QueueNames : Cardinality(ConstructedFor(q)) <= 1
  /\ boot.dropped = {}

\* the signals that have arrived
Arrived == 1..down.arrived

\* C26: on SIGTERM or SIGINT the process exits only after a close has been attempted
\* and has settled on every queue that was in the registry when the signal arrived, for
\* any interleaving of the two handlers that both call closeAll.
C26_ExitAfterEveryClose ==
  down.exited =>
    \A sg \in Arrived : \A q \in down.atSignal[sg] :
      down.closing[q] \in {"closed", "failed"}

====
